---- MODULE Spec2Model ----
(***************************************************************************)
(* api-factory: field validation (fields.py), form processing (forms.py),  *)
(* the error taxonomy (exceptions.py) and the AWS Lambda request pipeline  *)
(* (handlers.py).                                                          *)
(*                                                                         *)
(* A Python value is a pair <<type, payload>>.  The payload of a str is a  *)
(* sequence of one-character strings, of a list a sequence of values, of a *)
(* dict a sequence of [k, v] items in insertion order.  A message (str(e), a reason) is a  *)
(* sequence of text pieces: the literal parts of a format string are one   *)
(* piece each, a formatted value contributes the characters of its str().  *)
(***************************************************************************)
EXTENDS Integers, Sequences, FiniteSets, TLC

\* ------------------------------------------------------------------------
\* Bounds of the model
\* ------------------------------------------------------------------------
\* raw integers offered to the forms are 0..MaxInt
MaxInt == 2
\* nesting depth of subform fields in the enumerated output forms
MaxDepth == 2

\* ------------------------------------------------------------------------
\* Python values
\* ------------------------------------------------------------------------
None == <<"none", 0>>
PyInt(n) == <<"int", n>>
PyBool(b) == <<"bool", b>>
PyStr(s) == <<"str", s>>
PyList(l) == <<"list", l>>
PyDict(items) == <<"dict", items>>
PySet(S) == <<"set", S>>
PyTuple(l) == <<"tuple", l>>
\* a float, held as its number of tenths; the float that is not a number
PyFloat(tenths) == <<"float", tenths>>
NaN == <<"nan", 0>>
EmptyDict == PyDict(<<>>)

\* bool(value) / `not value`
Truthy(x) ==
    CASE x[1] = "none" -> FALSE
      [] x[1] = "bool" -> x[2]
      [] x[1] = "int" -> x[2] # 0
      [] x[1] = "float" -> x[2] # 0
      [] x[1] = "nan" -> TRUE
      [] OTHER -> Len(x[2]) > 0

\* dict.get(key): None when the key is missing
DictGet(d, key) ==
    IF \E i \in 1..Len(d[2]) : d[2][i].k = key
    THEN d[2][CHOOSE i \in 1..Len(d[2]) : d[2][i].k = key].v
    ELSE None

DictKeys(d) == {d[2][i].k : i \in 1..Len(d[2])}

DigitChars == <<"0", "1", "2", "3", "4", "5", "6", "7", "8", "9">>

IsDigit(c) == \E i \in 1..10 : DigitChars[i] = c

DigitVal(c) == (CHOOSE i \in 1..10 : DigitChars[i] = c) - 1

RECURSIVE NatToChars(_)
NatToChars(n) ==
    IF n < 10 THEN <<DigitChars[n + 1]>>
    ELSE NatToChars(n \div 10) \o <<DigitChars[(n % 10) + 1]>>

IntToChars(n) == IF n < 0 THEN <<"-">> \o NatToChars(0 - n) ELSE NatToChars(n)

RECURSIVE CharsToNat(_)
CharsToNat(s) ==
    IF Len(s) = 0 THEN 0
    ELSE 10 * CharsToNat(SubSeq(s, 1, Len(s) - 1)) + DigitVal(s[Len(s)])

AllDigits(s) == Len(s) > 0 /\ \A i \in 1..Len(s) : IsDigit(s[i])

RECURSIVE JoinChars(_, _)
JoinChars(parts, sep) ==
    IF Len(parts) = 0 THEN <<>>
    ELSE IF Len(parts) = 1 THEN parts[1]
    ELSE parts[1] \o sep \o JoinChars(Tail(parts), sep)

\* repr of a float of t tenths: 3.5, 2.0, -0.5
FloatToChars(t) ==
    LET a == IF t < 0 THEN 0 - t ELSE t IN
    (IF t < 0 THEN <<"-">> ELSE <<>>) \o NatToChars(a \div 10) \o <<".", DigitChars[(a % 10) + 1]>>

\* str(value) and repr(value), as characters (a key of a dict is one piece;
\* the forms of the model are never handed a dict for a plain field)
RECURSIVE StrOf(_), ReprOf(_)
StrOf(x) ==
    CASE x[1] = "none" -> <<"N", "o", "n", "e">>
      [] x[1] = "bool" -> IF x[2] THEN <<"T", "r", "u", "e">> ELSE <<"F", "a", "l", "s", "e">>
      [] x[1] = "int" -> IntToChars(x[2])
      [] x[1] = "float" -> FloatToChars(x[2])
      [] x[1] = "nan" -> <<"n", "a", "n">>
      [] x[1] = "tuple" ->
            <<"(">> \o JoinChars([i \in 1..Len(x[2]) |-> ReprOf(x[2][i])], <<",", " ">>)
            \o (IF Len(x[2]) = 1 THEN <<",">> ELSE <<>>) \o <<")">>
      [] x[1] = "str" -> x[2]
      [] x[1] = "list" ->
            <<"[">> \o JoinChars([i \in 1..Len(x[2]) |-> ReprOf(x[2][i])], <<",", " ">>) \o <<"]">>
      [] x[1] = "dict" ->
            <<"{">> \o JoinChars([i \in 1..Len(x[2]) |->
                          <<"'", x[2][i].k, "'", ":", " ">> \o ReprOf(x[2][i].v)], <<",", " ">>) \o <<"}">>

ReprOf(x) == IF x[1] = "str" THEN <<"'">> \o x[2] \o <<"'">> ELSE StrOf(x)

\* ------------------------------------------------------------------------
\* exceptions.py
\* ------------------------------------------------------------------------
Exc(cls) == [cls |-> cls, field |-> "", value |-> None, reason |-> <<>>, user_id |-> "", action |-> ""]

FieldValidationError(reason) == [Exc("FieldValidationError") EXCEPT !.reason = reason]
ServerError(reason) == [Exc("ServerError") EXCEPT !.reason = reason]
PermissionsError(user_id, action) == [Exc("PermissionsError") EXCEPT !.user_id = user_id, !.action = action]
RequiredFieldError(field) == [Exc("RequiredFieldError") EXCEPT !.field = field]
InvalidValueError(field, value, reason) ==
    [Exc("InvalidValueError") EXCEPT !.field = field, !.value = value, !.reason = reason]
AuthenticationError == Exc("AuthenticationError")
NoExc == Exc("")

\* outcome of a call: a returned value or a raised exception
Ok(x) == [ok |-> TRUE, val |-> x, exc |-> NoExc]
Raise(e) == [ok |-> FALSE, val |-> None, exc |-> e]

\* the base class of every exception class of the model
BaseOf(cls) ==
    CASE cls \in {"PermissionsError", "RequiredFieldError", "InvalidValueError", "AuthenticationError"}
            -> "ClientError"
      [] cls = "JSONDecodeError" -> "ValueError"
      [] cls = "InvalidSignatureError" -> "PyJWTError"
      [] OTHER -> "Exception"

\* isinstance(e, cls), as the except clauses evaluate it
RECURSIVE IsSubclass(_, _)
IsSubclass(c, base) ==
    IF c = base THEN TRUE
    ELSE IF c = "Exception" THEN FALSE
    ELSE IsSubclass(BaseOf(c), base)

\* str(e)
ExcStr(e) ==
    CASE e.cls = "PermissionsError" ->
            <<"permission denied">>
            \o (IF e.user_id # "" THEN <<" for the user [", e.user_id, "]">> ELSE <<>>)
            \o (IF e.action # "" THEN <<" to perform the action [", e.action, "]">> ELSE <<>>)
      [] e.cls = "RequiredFieldError" -> <<e.field, " is required">>
      [] e.cls = "InvalidValueError" ->
            <<"invalid value [", e.field, "=">> \o StrOf(e.value) \o <<"] ">> \o e.reason
      [] e.cls = "AuthenticationError" -> <<"authentication error">>
      [] OTHER -> e.reason

\* ------------------------------------------------------------------------
\* fields.py
\* ------------------------------------------------------------------------
\* the attributes of the output-only declarations: key_map of every field,
\* the nested form of the subform fields
OutputAttrs == [key_map |-> "", subform |-> None]

\* a field declaration with the constructors' defaults
Field(kind) ==
    [kind |-> kind, required |-> FALSE, default |-> None,
     min_length |-> None, max_length |-> None, min_value |-> None, max_value |-> None,
     field_type |-> "", blank |-> TRUE, valid_values |-> None] @@ OutputAttrs

StringField == Field("StringField")
BooleanField == Field("BooleanField")
IntegerField == Field("IntegerField")
FloatField == Field("FloatField")
ListField(field_type) == [Field("ListField") EXCEPT !.field_type = field_type]
SubformField(form) == [Field("SubformField") EXCEPT !.subform = form]
ListSubformField(form) == [Field("ListSubformField") EXCEPT !.subform = form]
DictSubformField(form) == [Field("DictSubformField") EXCEPT !.subform = form]

IsSubformKind(kind) == kind \in {"SubformField", "ListSubformField", "DictSubformField"}

\* int(value): ValueError for text that is not a whole number and for the
\* float that is not a number, TypeError for a value that has no integer
\* conversion; a float is truncated towards zero
IntOf(x) ==
    CASE x[1] = "int" -> Ok(x)
      [] x[1] = "bool" -> Ok(PyInt(IF x[2] THEN 1 ELSE 0))
      [] x[1] = "float" -> Ok(PyInt(IF x[2] < 0 THEN 0 - ((0 - x[2]) \div 10) ELSE x[2] \div 10))
      [] x[1] = "nan" -> Raise([Exc("ValueError") EXCEPT !.reason = <<"cannot convert float NaN to integer">>])
      [] x[1] = "str" ->
            IF AllDigits(x[2]) THEN Ok(PyInt(CharsToNat(x[2])))
            ELSE IF Len(x[2]) > 1 /\ x[2][1] = "-" /\ AllDigits(Tail(x[2]))
            THEN Ok(PyInt(0 - CharsToNat(Tail(x[2]))))
            ELSE IF Len(x[2]) > 1 /\ x[2][1] = "+" /\ AllDigits(Tail(x[2]))
            THEN Ok(PyInt(CharsToNat(Tail(x[2]))))
            ELSE Raise([Exc("ValueError") EXCEPT !.reason = <<"invalid literal for int()">>])
      [] OTHER -> Raise([Exc("TypeError") EXCEPT !.reason = <<"int() argument must be a string or a number">>])

\* the tenths of an unsigned decimal text: digits, or digits, a point and
\* one digit (the decimal texts of the model carry one fractional digit);
\* -1 for any other text
DecimalTenths(s) ==
    IF AllDigits(s) THEN 10 * CharsToNat(s)
    ELSE IF /\ Len(s) >= 3 /\ s[Len(s) - 1] = "." /\ IsDigit(s[Len(s)])
            /\ AllDigits(SubSeq(s, 1, Len(s) - 2))
    THEN 10 * CharsToNat(SubSeq(s, 1, Len(s) - 2)) + DigitVal(s[Len(s)])
    ELSE 0 - 1

\* float(value): ValueError for text that is not a number, TypeError for a
\* value that has no float conversion; the text nan is the float that is
\* not a number
FloatOf(x) ==
    CASE x[1] = "float" -> Ok(x)
      [] x[1] = "nan" -> Ok(x)
      [] x[1] = "int" -> Ok(PyFloat(10 * x[2]))
      [] x[1] = "bool" -> Ok(PyFloat(IF x[2] THEN 10 ELSE 0))
      [] x[1] = "str" ->
            LET signed == Len(x[2]) > 1 /\ x[2][1] \in {"-", "+"}
                body == IF signed THEN Tail(x[2]) ELSE x[2]
            IN
            IF body = <<"n", "a", "n">> THEN Ok(NaN)
            ELSE IF DecimalTenths(body) >= 0
            THEN Ok(PyFloat(IF signed /\ x[2][1] = "-" THEN 0 - DecimalTenths(body) ELSE DecimalTenths(body)))
            ELSE Raise([Exc("ValueError") EXCEPT !.reason = <<"could not convert string to float">>])
      [] OTHER -> Raise([Exc("TypeError") EXCEPT !.reason = <<"float() argument must be a string or a number">>])

\* the tenths of a number
Tenths(x) ==
    CASE x[1] = "float" -> x[2]
      [] x[1] = "bool" -> IF x[2] THEN 10 ELSE 0
      [] OTHER -> 10 * x[2]

\* a > b on numbers: every comparison with the float that is not a number
\* is false
NumGt(a, b) == a[1] # "nan" /\ b[1] # "nan" /\ Tenths(a) > Tenths(b)

StringField_custom_validation_repr(f, value) ==
    LET checked(s) ==
            IF f.min_length # None /\ f.min_length[2] > Len(s)
            THEN Raise(FieldValidationError(
                    <<"the value is shorter than min allowed length [">> \o StrOf(f.min_length) \o <<"]">>))
            ELSE IF f.max_length # None /\ f.max_length[2] < Len(s)
            THEN Raise(FieldValidationError(
                    <<"the value is larger than max allowed length [">> \o StrOf(f.max_length) \o <<"]">>))
            ELSE Ok(PyStr(s))
    IN checked(ReprOf(value))

StringField_custom_validation(f, value) ==
    LET checked(s) ==
            IF f.min_length # None /\ f.min_length[2] > Len(s)
            THEN Raise(FieldValidationError(
                    <<"the value is shorter than min allowed length [">> \o StrOf(f.min_length) \o <<"]">>))
            ELSE IF f.max_length # None /\ f.max_length[2] < Len(s)
            THEN Raise(FieldValidationError(
                    <<"the value is larger than max allowed length [">> \o StrOf(f.max_length) \o <<"]">>))
            ELSE Ok(PyStr(s))
    IN checked(StrOf(value))

BooleanField_custom_validation(f, value) == Ok(PyBool(Truthy(value)))

\* self.dtype(value): float for a FloatField, int for an IntegerField
dtype(f, value) == IF f.kind = "FloatField" THEN FloatOf(value) ELSE IntOf(value)

NumericField_custom_validation(f, value) ==
    LET checked(r) ==
            IF ~r.ok
            THEN IF IsSubclass(r.exc.cls, "ValueError")
                 THEN Raise(FieldValidationError(<<"wrong data type">>))
                 ELSE Raise(r.exc)
            ELSE IF f.min_value # None /\ NumGt(f.min_value, r.val)
            THEN Raise(FieldValidationError(
                    <<"the value is lower than min allowed value [">> \o StrOf(f.min_value) \o <<"]">>))
            ELSE IF f.max_value # None /\ NumGt(r.val, f.max_value)
            THEN Raise(FieldValidationError(
                    <<"the value is bigger than max allowed value [">> \o StrOf(f.max_value) \o <<"]">>))
            ELSE Ok(r.val)
    IN checked(dtype(f, value))

\* the elements a for-loop over the value visits; a str yields its
\* characters, a dict its keys
IsIterable(x) == x[1] \in {"list", "tuple", "str", "dict"}

IterOf(x) ==
    CASE x[1] = "str" -> [i \in 1..Len(x[2]) |-> PyStr(<<x[2][i]>>)]
      [] x[1] = "dict" -> [i \in 1..Len(x[2]) |-> PyStr(<<x[2][i].k>>)]
      [] OTHER -> x[2]

RECURSIVE SetToSeq(_)
SetToSeq(S) == IF S = {} THEN <<>> ELSE LET x == CHOOSE y \in S : TRUE IN <<x>> \o SetToSeq(S \ {x})

\* repr of a non-empty set
SetRepr(S) ==
    LET q == SetToSeq(S) IN
    <<"{">> \o JoinChars([i \in 1..Len(q) |-> ReprOf(q[i])], <<",", " ">>) \o <<"}">>

\* index of the first failed outcome of a sequence of outcomes, 0 when none
FirstFailure(rs) ==
    IF \E i \in 1..Len(rs) : ~rs[i].ok
    THEN CHOOSE i \in 1..Len(rs) : ~rs[i].ok /\ \A j \in 1..(i - 1) : rs[j].ok
    ELSE 0

blank_rejected_inverted(f, values) == f.blank /\ Len(values) = 0

\* the blank check of ListField.custom_validation: not self.blank and not values
blank_rejected(f, values) == ~f.blank /\ Len(values) = 0

checked_values_raw(raw, values) == {raw[i] : i \in 1..Len(raw)}

\* set(values) of the valid_values check: values is the list of validated
\* elements, raw the elements as they were given
checked_values(raw, values) == {values[i] : i \in 1..Len(values)}

RECURSIVE validate(_, _), custom_validation(_, _), ListField_custom_validation(_, _)
validate_always_default(f, value) ==
    LET v1 == IF value # None THEN value ELSE f.default IN
    IF v1 = None THEN Ok(None) ELSE custom_validation(f, v1)

\* BaseField.validate
validate(f, value) ==
    LET v1 == IF ~f.required THEN (IF value # None THEN value ELSE f.default) ELSE value IN
    IF v1 = None THEN Ok(None) ELSE custom_validation(f, v1)

custom_validation(f, value) ==
    CASE f.kind = "StringField" -> StringField_custom_validation(f, value)
      [] f.kind = "BooleanField" -> BooleanField_custom_validation(f, value)
      [] f.kind = "IntegerField" -> NumericField_custom_validation(f, value)
      [] f.kind = "FloatField" -> NumericField_custom_validation(f, value)
      [] f.kind = "ListField" -> ListField_custom_validation(f, value)

ListField_custom_validation(f, values) ==
    LET WrongType == Raise(FieldValidationError(<<"wrong data type">>))
        \* the valid_values check on the difference unexpected_values
        allowed(vals, unexpected_values) ==
            IF unexpected_values # {}
            THEN Raise(FieldValidationError(<<"not allowed values: ">> \o SetRepr(unexpected_values)))
            ELSE Ok(PyList(vals))
        \* the checks on the list vals of validated elements
        checked(it, vals) ==
            IF blank_rejected(f, vals)
            THEN Raise(FieldValidationError(<<"the value is blank">>))
            ELSE IF f.valid_values # None
            THEN allowed(vals, checked_values(it, vals) \ f.valid_values[2])
            ELSE Ok(PyList(vals))
        \* the loop over the elements it: rs[i] is the outcome of
        \* self.field_type().validate on it[i], bad the first that failed
        looped(it, rs, bad) ==
            IF bad # 0
            THEN IF rs[bad].exc.cls = "TypeError" THEN WrongType ELSE Raise(rs[bad].exc)
            ELSE checked(it, [i \in 1..Len(it) |-> rs[i].val])
        outcomes(it, rs) == looped(it, rs, FirstFailure(rs))
        elements(it) == outcomes(it, [i \in 1..Len(it) |-> validate(Field(f.field_type), it[i])])
    IN
    IF ~IsIterable(values) THEN WrongType ELSE elements(IterOf(values))

\* ------------------------------------------------------------------------
\* forms.py
\* ------------------------------------------------------------------------
\* a form class: cls.fields, the (key, field) pairs in declaration order
Form(fields) == <<"form", fields>>
FormKeys(form) == {form[2][i].key : i \in 1..Len(form[2])}

AttributeError(reason) == [Exc("AttributeError") EXCEPT !.reason = reason]
TypeError(reason) == [Exc("TypeError") EXCEPT !.reason = reason]

dict_set_skip_none(items, key, val) ==
    IF val = None THEN items ELSE Append(items, [k |-> key, v |-> val])

\* processed_data[key] = val
dict_set(items, key, val) ==
    IF \E i \in 1..Len(items) : items[i].k = key
    THEN [i \in 1..Len(items) |-> IF items[i].k = key THEN [k |-> key, v |-> val] ELSE items[i]]
    ELSE Append(items, [k |-> key, v |-> val])

required_missing_none(field, value) == field.required /\ value = None

\* the required check of BaseInputForm.process: field.required and not value
required_missing(field, value) == field.required /\ ~Truthy(value)

input_error_substituted(key, field, value, e) ==
    InvalidValueError(key, IF ~field.required /\ value = None THEN field.default ELSE value, ExcStr(e))

\* the except clause of BaseInputForm.process on the failure e of field.validate(value)
input_error(key, field, value, e) == InvalidValueError(key, value, ExcStr(e))

\* the except clause of BaseOutputForm.process_form
output_error(key, field, value, e) ==
    ServerError(<<"invalid value [", key, "=">> \o StrOf(value) \o <<"] ">> \o ExcStr(e))

source_key_own(key, field) == key

\* the key process_form reads a field's value under
source_key(key, field) == IF field.key_map # "" THEN field.key_map ELSE key

absent_subform_none(field) == None

\* processed_data[key] of a subform field whose source value is None
absent_subform(field) == IF field.kind = "ListSubformField" THEN PyList(<<>>) ELSE None

RECURSIVE InputFields(_, _, _, _)
\* the loop of BaseInputForm.process from field i on
InputFields(form, input_data, i, processed_data) ==
    IF i > Len(form[2]) THEN Ok(PyDict(processed_data))
    ELSE IF input_data[1] # "dict"
    THEN Raise(AttributeError(<<"object has no attribute 'get'">>))
    ELSE
    LET key == form[2][i].key
        field == form[2][i].field
        value == DictGet(input_data, key)
        \* r is the outcome of field.validate(value)
        validated(r) ==
            IF r.ok THEN InputFields(form, input_data, i + 1, dict_set(processed_data, key, r.val))
            ELSE IF r.exc.cls = "FieldValidationError"
            THEN Raise(input_error(key, field, value, r.exc))
            ELSE Raise(r.exc)
    IN
    IF required_missing(field, value) THEN Raise(RequiredFieldError(key))
    ELSE validated(validate(field, value))

\* BaseInputForm.process
InputForm_process(form, input_data) == InputFields(form, input_data, 1, <<>>)

RECURSIVE process_form(_, _), OutputFields(_, _, _, _)
\* the loop of BaseOutputForm.process_form from field i on
OutputFields(form, output_data, i, processed_data) ==
    IF i > Len(form[2]) THEN Ok(PyDict(processed_data))
    ELSE IF output_data[1] # "dict"
    THEN Raise(AttributeError(<<"object has no attribute 'get'">>))
    ELSE
    LET key == form[2][i].key
        field == form[2][i].field
        value == DictGet(output_data, source_key(key, field))
        \* rs are the outcomes of process_form on the records of a subform
        \* field, bad the first that failed, vals the value when none did
        records(rs, bad, vals) == IF bad # 0 THEN Raise(rs[bad].exc) ELSE Ok(vals)
        each(rs, vals) == records(rs, FirstFailure(rs), vals)
        \* fr is the outcome of field.validate(value)
        validated(fr) ==
            IF ~fr.ok /\ fr.exc.cls = "FieldValidationError"
            THEN Raise(output_error(key, field, value, fr.exc))
            ELSE fr
        \* r is the outcome of the field's branch
        stored(r) ==
            IF r.ok THEN OutputFields(form, output_data, i + 1, dict_set(processed_data, key, r.val))
            ELSE Raise(r.exc)
    IN
    stored(CASE field.kind = "DictSubformField" ->
                    IF value = None THEN Ok(absent_subform(field))
                    ELSE IF value[1] # "dict"
                    THEN Raise(AttributeError(<<"object has no attribute 'items'">>))
                    ELSE LET items(rs) ==
                                 each(rs, PyDict([j \in 1..Len(value[2]) |->
                                                    [k |-> value[2][j].k, v |-> rs[j].val]]))
                         IN items([j \in 1..Len(value[2]) |-> process_form(field.subform, value[2][j].v)])
               [] field.kind = "ListSubformField" ->
                    IF value = None THEN Ok(absent_subform(field))
                    ELSE IF ~IsIterable(value)
                    THEN Raise(TypeError(<<"object is not iterable">>))
                    ELSE LET listed(rs) == each(rs, PyList([j \in 1..Len(rs) |-> rs[j].val]))
                             elements(it) == listed([j \in 1..Len(it) |-> process_form(field.subform, it[j])])
                         IN elements(IterOf(value))
               [] field.kind = "SubformField" ->
                    IF value = None THEN Ok(absent_subform(field))
                    ELSE process_form(field.subform, value)
               [] OTHER -> validated(validate(field, value)))

\* BaseOutputForm.process_form
process_form(form, output_data) == OutputFields(form, output_data, 1, <<>>)

\* BaseOutputForm.process: a dict, a list of dicts, or (falling off the
\* end of the method) None for any other value
OutputForm_process(form, output_data) ==
    IF output_data[1] = "dict" THEN process_form(form, output_data)
    ELSE IF output_data[1] \in {"list", "tuple"}
    THEN LET records(rs, bad) ==
                 IF bad # 0 THEN Raise(rs[bad].exc)
                 ELSE Ok(PyList([j \in 1..Len(output_data[2]) |-> rs[j].val]))
             each(rs) == records(rs, FirstFailure(rs))
         IN each([j \in 1..Len(output_data[2]) |-> process_form(form, output_data[2][j])])
    ELSE Ok(None)

\* ------------------------------------------------------------------------
\* handlers.py
\* ------------------------------------------------------------------------
error_response(status_code, reason) == [status |-> "FAIL", status_code |-> status_code, reason |-> reason]

success_response(body) == [status |-> "OK", body |-> body]

\* a lexical token of a JSON text: punctuation, the text of a value, or a
\* string literal in key position
Punct(p) == [p |-> p, k |-> "", val |-> None]
Lit(val) == [p |-> "lit", k |-> "", val |-> val]
Key(k) == [p |-> "key", k |-> k, val |-> None]

JSONDecodeError == [Exc("JSONDecodeError") EXCEPT !.reason = <<"Expecting value">>]

\* json.loads on a text of scalars, flat arrays and flat objects
json_loads(text) ==
    LET toks == text[2]
        n == Len(toks)
        inner == SubSeq(toks, 2, n - 1)
        m == Len(inner)
    IN
    IF n = 1 /\ toks[1].p = "lit" THEN Ok(toks[1].val)
    ELSE IF n >= 2 /\ toks[1].p = "[" /\ toks[n].p = "]"
    THEN IF m = 0 THEN Ok(PyList(<<>>))
         ELSE IF /\ m % 2 = 1
                 /\ \A i \in 1..m : inner[i].p = (IF i % 2 = 1 THEN "lit" ELSE ",")
         THEN Ok(PyList([i \in 1..((m + 1) \div 2) |-> inner[2 * i - 1].val]))
         ELSE Raise(JSONDecodeError)
    ELSE IF n >= 2 /\ toks[1].p = "{" /\ toks[n].p = "}"
    THEN IF m = 0 THEN Ok(EmptyDict)
         ELSE IF /\ m % 4 = 3
                 /\ \A i \in 1..m : inner[i].p = (CASE i % 4 = 1 -> "key" [] i % 4 = 2 -> ":"
                                                    [] i % 4 = 3 -> "lit" [] OTHER -> ",")
         THEN Ok(PyDict([i \in 1..((m + 1) \div 4) |->
                            [k |-> inner[4 * i - 3].k, v |-> inner[4 * i - 1].val]]))
         ELSE Raise(JSONDecodeError)
    ELSE Raise(JSONDecodeError)

decode_input_query(method, data) ==
    Ok(IF Truthy(data.queryStringParameters) THEN data.queryStringParameters ELSE EmptyDict)

\* the first statement of LambdaHandler.process_method: the raw input mapping
decode_input(method, data) ==
    IF method = "GET"
    THEN Ok(IF Truthy(data.queryStringParameters) THEN data.queryStringParameters ELSE EmptyDict)
    ELSE IF Truthy(data.body) THEN json_loads(data.body) ELSE Ok(EmptyDict)

\* Auth0Authenticator.setup_requesting_user; jwt holds what the certificate
\* loader and jwt.decode do with the configured key and the presented token
setup_requesting_user(headers, jwt) ==
    LET token == DictGet(headers, "Authorization") IN
    IF ~Truthy(token) THEN Raise(AuthenticationError)
    ELSE IF ~jwt.cert.ok THEN Raise(jwt.cert.exc)
    ELSE IF ~jwt.decode.ok
    THEN IF IsSubclass(jwt.decode.exc.cls, "InvalidSignatureError") THEN Raise(AuthenticationError)
         ELSE IF IsSubclass(jwt.decode.exc.cls, "PyJWTError") THEN Raise(AuthenticationError)
         ELSE Raise(jwt.decode.exc)
    ELSE
    LET token_payload == jwt.decode.val
        user_email == DictGet(token_payload, "email")
        email_verified == DictGet(token_payload, "email_verified")
    IN
    IF ~Truthy(user_email) THEN Raise(AuthenticationError)
    ELSE IF ~Truthy(email_verified) THEN Raise(AuthenticationError)
    ELSE Ok(user_email)

\* value[key]: KeyError for a missing key, TypeError for a value that is
\* not a mapping (the keys of the model are never indices)
GetItem(value, key) ==
    IF value[1] # "dict" THEN Raise(TypeError(<<"object is not subscriptable">>))
    ELSE IF key \notin DictKeys(value) THEN Raise([Exc("KeyError") EXCEPT !.reason = <<key>>])
    ELSE Ok(DictGet(value, key))

\* AuthHandler.call_lambda; invoke is what lambda_client.invoke does: it
\* raises, or returns the text that response['Payload'].read() gives
call_lambda(invoke) ==
    LET \* json.loads(response['body'])
        returned(body) ==
            IF ~body.ok THEN Raise(body.exc)
            ELSE IF body.val[1] # "str"
            THEN Raise(TypeError(<<"the JSON object must be str, bytes or bytearray">>))
            ELSE json_loads(body.val)
        \* response = json.loads(response['Payload'].read())
        loaded(response) ==
            IF ~response.ok THEN Raise(response.exc) ELSE returned(GetItem(response.val, "body"))
    IN
    IF ~invoke.ok THEN Raise(invoke.exc) ELSE loaded(json_loads(invoke.val))

authorize_deny_only_status(status, allowed) == status = PyStr(<<"F", "A", "I", "L">>)

\* the condition of AuthHandler.authorize:
\* response['status'] == 'FAIL' or not response['body']['access_is_allowed']
authorize_deny(status, allowed) == status = PyStr(<<"F", "A", "I", "L">>) \/ ~Truthy(allowed)

\* AuthHandler.authorize
authorize(invoke, user) ==
    LET \* response = self.call_lambda(...)
        answered(response) ==
            IF ~response.ok THEN Raise(response.exc)
            ELSE
            LET status == GetItem(response.val, "status")
                body == GetItem(response.val, "body")
                allowed == IF body.ok THEN GetItem(body.val, "access_is_allowed") ELSE body
            IN
            IF ~status.ok THEN Raise(status.exc)
            ELSE IF status.val # PyStr(<<"F", "A", "I", "L">>) /\ ~allowed.ok THEN Raise(allowed.exc)
            ELSE IF user = None THEN Raise(AttributeError(<<"'NoneType' object has no attribute 'email'">>))
            ELSE IF authorize_deny(status.val, IF allowed.ok THEN allowed.val ELSE None)
            THEN Raise(PermissionsError("", ""))
            ELSE Ok(None)
    IN answered(call_lambda(invoke))

\* self.handler(): the business logic, which first calls self.authorize
\* when the handler class does so
run_handler(a, l, user) ==
    IF a.called
    THEN LET authorized(r) == IF r.ok THEN l ELSE r IN authorized(authorize(a.invoke, user))
    ELSE l

\* the except clauses of LambdaHandler.handle_request, in their order:
\* the classes a clause names, its status code, and whether the reason is
\* str(e) or the fixed text
ExceptClauses_client_first ==
    << [classes |-> {"ClientError"}, status_code |-> 400, str_e |-> TRUE],
       [classes |-> {"PermissionsError"}, status_code |-> 403, str_e |-> TRUE],
       [classes |-> {"AuthenticationError"}, status_code |-> 401, str_e |-> TRUE],
       [classes |-> {"ServerError", "Exception"}, status_code |-> 500, str_e |-> FALSE] >>

ExceptClauses_str_e ==
    << [classes |-> {"PermissionsError"}, status_code |-> 403, str_e |-> TRUE],
       [classes |-> {"AuthenticationError"}, status_code |-> 401, str_e |-> TRUE],
       [classes |-> {"ClientError"}, status_code |-> 400, str_e |-> TRUE],
       [classes |-> {"ServerError", "Exception"}, status_code |-> 500, str_e |-> TRUE] >>

ExceptClauses ==
    << [classes |-> {"PermissionsError"}, status_code |-> 403, str_e |-> TRUE],
       [classes |-> {"AuthenticationError"}, status_code |-> 401, str_e |-> TRUE],
       [classes |-> {"ClientError"}, status_code |-> 400, str_e |-> TRUE],
       [classes |-> {"ServerError", "Exception"}, status_code |-> 500, str_e |-> FALSE] >>

Matches(clause, e) == \E c \in clause.classes : IsSubclass(e.cls, c)

\* the try statement of handle_request on a raised exception: the response
\* of the first matching clause, or the exception propagating to the caller
handle_exception(e) ==
    IF \E i \in 1..Len(ExceptClauses) : Matches(ExceptClauses[i], e)
    THEN LET i == CHOOSE i \in 1..Len(ExceptClauses) :
                    /\ Matches(ExceptClauses[i], e)
                    /\ \A j \in 1..(i - 1) : ~Matches(ExceptClauses[j], e)
             c == ExceptClauses[i]
         IN [caught |-> TRUE,
             response |-> error_response(c.status_code, IF c.str_e THEN ExcStr(e) ELSE <<"server error">>)]
    ELSE [caught |-> FALSE, response |-> error_response(0, <<>>)]

\* Auth0Authenticator.process_method / LambdaHandler.process_method: the
\* stage that follows each stage
first_stage(h) == IF h.authentication THEN "authenticating" ELSE "decoding"
after_decoding_skip(h) == "executing"
after_decoding(h) == IF h.input_form # None THEN "validating-input" ELSE "executing"
after_executing(h) == IF h.output_form # None THEN "validating-output" ELSE "responding"

\* ------------------------------------------------------------------------
\* The requests, handlers and collaborators of the model
\* ------------------------------------------------------------------------
Chars_ab == <<"a", "b">>
Chars_qw == <<"q", "w">>
Item(k, v) == [k |-> k, v |-> v]
FormField(key, field) == [key |-> key, field |-> field]

\* tests/test_forms.py: email = StringField(required=True), age = IntegerField()
TestInputForm ==
    Form(<<FormField("email", [StringField EXCEPT !.required = TRUE]), FormField("age", IntegerField)>>)

\* spec scenario D: age = IntegerField(min_value=2)
TestOutputForm == Form(<<FormField("age", [IntegerField EXCEPT !.min_value = PyInt(2)])>>)

Handlers ==
    [method : {"GET", "POST"}, authentication : BOOLEAN,
     input_form : {None, TestInputForm}, output_form : {None, TestOutputForm}]

Queries ==
    { None, EmptyDict,
      PyDict(<<Item("email", PyStr(Chars_ab))>>),
      PyDict(<<Item("email", PyStr(Chars_ab)), Item("age", PyStr(Chars_qw))>>) }

Body_empty == PyStr(<<>>)
Body_truncated == PyStr(<<Punct("{"), Key("email"), Punct(":")>>)
Body_object == PyStr(<<Punct("{"), Key("email"), Punct(":"), Lit(PyStr(Chars_ab)), Punct("}")>>)
Body_object2 ==
    PyStr(<<Punct("{"), Key("email"), Punct(":"), Lit(PyStr(Chars_ab)), Punct(","),
            Key("age"), Punct(":"), Lit(PyInt(MaxInt)), Punct("}")>>)
Body_no_email == PyStr(<<Punct("{"), Punct("}")>>)
Body_array == PyStr(<<Punct("["), Lit(PyInt(1)), Punct("]")>>)

Bodies == {None, Body_empty, Body_truncated, Body_object, Body_object2, Body_no_email, Body_array}

MalformedBodies == {Body_truncated}

Token == PyStr(<<"B", "e", "a", "r", "e", "r", " ", "x">>)
Headers == {None, EmptyDict, PyDict(<<Item("Authorization", PyStr(<<>>))>>), PyDict(<<Item("Authorization", Token)>>)}

\* the platform events: a query, a body, or both
Events ==
    {[headers |-> h, queryStringParameters |-> q, body |-> None] : h \in Headers, q \in Queries}
    \cup {[headers |-> h, queryStringParameters |-> None, body |-> b] : h \in Headers, b \in Bodies}
    \cup {[headers |-> h, queryStringParameters |-> EmptyDict, body |-> Body_object] : h \in Headers}

HasToken(ev) == ev.headers # None /\ Truthy(DictGet(ev.headers, "Authorization"))

Claims(email, verified) == PyDict(<<Item("email", email), Item("email_verified", verified)>>)

\* what load_pem_x509_certificate and jwt.decode do: a certificate that does
\* not load, a bad signature, another decoding error of the library, an
\* exception of another kind, or the decoded claims
GoodVerifier == [cert |-> Ok(None), decode |-> Ok(PyDict(<<Item("email", PyStr(Chars_ab)), Item("email_verified", PyBool(TRUE))>>))]

Verifiers ==
    { [cert |-> Raise([Exc("ValueError") EXCEPT !.reason = <<"Unable to load certificate">>]),
       decode |-> Ok(Claims(PyStr(Chars_ab), PyBool(TRUE)))] }
    \cup
    { [cert |-> Ok(None), decode |-> d] :
        d \in { Raise(Exc("InvalidSignatureError")), Raise(Exc("PyJWTError")),
                Raise([Exc("TypeError") EXCEPT !.reason = <<"Expecting a PEM-formatted key">>]),
                Ok(EmptyDict),
                Ok(Claims(PyStr(<<>>), PyBool(TRUE))),
                Ok(Claims(PyStr(Chars_ab), PyBool(FALSE))),
                Ok(PyDict(<<Item("email", PyStr(Chars_ab))>>)),
                Ok(Claims(PyStr(Chars_ab), PyBool(TRUE))) } }

Age(v) == PyDict(<<Item("age", v)>>)

\* what the business logic (self.handler()) does: the value it returns or
\* the exception it raises (every class below derives from Exception)
LogicOutcomes ==
    { Ok(Age(PyInt(n))) : n \in 1..(MaxInt + 1) }
    \cup { Ok(Age(PyStr(Chars_qw))), Ok(Age(PyList(<<PyInt(1)>>))), Ok(EmptyDict), Ok(None),
           Ok(PyList(<<Age(PyInt(2)), Age(PyInt(1))>>)), Ok(PyList(<<Age(PyInt(2)), Age(PyInt(3))>>)) }
    \cup { Raise(PermissionsError("", "")), Raise(PermissionsError("u1", "edit")),
           Raise(AuthenticationError), Raise(RequiredFieldError("email")),
           Raise(InvalidValueError("age", PyInt(0), <<"wrong data type">>)),
           Raise(Exc("ClientError")),
           Raise(ServerError(<<"db password rejected">>)),
           Raise(FieldValidationError(<<"wrong data type">>)),
           Raise([Exc("KeyError") EXCEPT !.reason = <<"email">>]),
           Raise(Exc("NotImplementedError")) }

\* ------------------------------------------------------------------------
\* State
\* ------------------------------------------------------------------------
VARIABLES
    pc,              \* the stage the invocation is about to run
    handler,         \* the handler class: method, authentication, forms
    event,           \* the platform event handed to _handler
    jwt,             \* the behaviour of the token verifier's libraries
    logic,           \* the behaviour of self.handler()
    authorizer,      \* whether self.handler() calls self.authorize, and what the call meets
    self_event,      \* self.event
    input_data,      \* self.input_data
    requesting_user, \* self.requesting_user
    response_data,   \* response_data of process_method
    response,        \* what handle_request returns
    raised,          \* the exception that reached the try statement
    escaped,         \* the exception that left handle_request
    trace,           \* the stages run so far, in order
    calls,           \* number of calls of self.handler()
    logic_input,     \* self.input_data as self.handler() found it
    form,            \* the form class a form run processes
    field,           \* the field a field run validates
    data,            \* the argument of the run
    result,          \* its outcome
    again,           \* the outcome of processing that outcome's value once more
    fpc,             \* position of the form run
    klass,           \* the attributes of the handler class, shared by its objects
    obj,             \* per concurrent invocation: the attributes set on its handler object
    inv              \* per concurrent invocation: its request, position and locals

pipeline_vars ==
    <<pc, handler, event, jwt, logic, authorizer, self_event, input_data, requesting_user,
      response_data, response, raised, escaped, trace, calls, logic_input>>
form_vars == <<form, field, data, result, again, fpc>>
invocation_vars == <<klass, obj, inv>>
vars == <<pipeline_vars, form_vars, invocation_vars>>

NoResponse == [status |-> "none"]
NoEvent == [headers |-> None, queryStringParameters |-> None, body |-> None]

\* a handler whose business logic does not call self.authorize
NoAuthorizer == [called |-> FALSE, invoke |-> Ok(None)]

\* no field
NoField == Field("")

\* number of concurrent invocations of the handler class
NumInvocations == 2
Invocations == 1..NumInvocations

\* the class attributes of a handler class h: event = None and
\* requesting_user = None of the class bodies next to the declared method,
\* authentication and forms (input_data is annotated only; it is read after
\* process_method has set it)
ClassOf(h) == h @@ [event |-> NoEvent, input_data |-> None, requesting_user |-> None]

\* cls(): an object with no attribute of its own
NewObject == [has |-> {}, event |-> NoEvent, input_data |-> None, requesting_user |-> None]

\* an invocation that has not started: its request and the locals of
\* handle_request and process_method
Invocation(ev, verifier, outcome) ==
    [pc |-> "received", event |-> ev, jwt |-> verifier, logic |-> outcome,
     response_data |-> None, response |-> NoResponse, raised |-> NoExc,
     logic_input |-> None, logic_user |-> None, overlapped |-> FALSE]

\* no concurrent invocation takes part in the behaviours of one request
\* or of a form run
InvocationsIdle ==
    /\ klass = ClassOf(handler)
    /\ obj = [i \in Invocations |-> NewObject]
    /\ inv = [i \in Invocations |-> [Invocation(NoEvent, GoodVerifier, Ok(None)) EXCEPT !.pc = "idle"]]

\* no form run takes part in the behaviours of the request pipeline
FormsIdle ==
    form = None /\ field = NoField /\ data = None /\ result = Ok(None) /\ again = Ok(None) /\ fpc = "idle"

\* no request takes part in the behaviours of the form runs
PipelineIdle ==
    /\ pc = "idle" /\ handler = [method |-> "GET", authentication |-> FALSE, input_form |-> None, output_form |-> None]
    /\ event = NoEvent /\ jwt = GoodVerifier /\ logic = Ok(None) /\ authorizer = NoAuthorizer
    /\ self_event = NoEvent /\ input_data = None /\ requesting_user = None
    /\ response_data = None /\ response = NoResponse /\ raised = NoExc /\ escaped = NoExc
    /\ trace = <<>> /\ calls = 0 /\ logic_input = None

\* ------------------------------------------------------------------------
\* The request pipeline: cls().handle_request(event)
\* ------------------------------------------------------------------------
Init ==
    /\ pc = "received"
    /\ handler \in Handlers
    /\ event \in Events
    /\ jwt \in (IF HasToken(event) THEN Verifiers ELSE {GoodVerifier})
    /\ logic \in LogicOutcomes
    /\ authorizer = NoAuthorizer
    /\ self_event = NoEvent /\ input_data = None /\ requesting_user = None
    /\ response_data = None /\ response = NoResponse /\ raised = NoExc /\ escaped = NoExc
    /\ trace = <<>> /\ calls = 0 /\ logic_input = None
    /\ FormsIdle
    /\ InvocationsIdle

\* an exception raised in process_method reaches the try statement
Fail(e) ==
    LET handled(h) ==
            /\ raised' = e
            /\ IF h.caught
               THEN /\ response' = h.response /\ pc' = "failed" /\ escaped' = escaped
               ELSE /\ escaped' = e /\ pc' = "escaped" /\ response' = response
    IN handled(handle_exception(e))

\* handle_request: self.event = event, then process_method
Receive ==
    /\ pc = "received"
    /\ self_event' = event
    /\ pc' = first_stage(handler)
    /\ UNCHANGED <<handler, event, jwt, logic, authorizer, input_data, requesting_user, response_data,
                   response, raised, escaped, trace, calls, logic_input, form_vars, invocation_vars>>

\* Auth0Authenticator.process_method: setup_requesting_user(headers or {})
Authenticate ==
    /\ pc = "authenticating"
    /\ trace' = Append(trace, "authenticate")
    /\ LET headers == IF Truthy(event.headers) THEN event.headers ELSE EmptyDict
           returned(r) ==
               IF r.ok
               THEN /\ requesting_user' = r.val /\ pc' = "decoding"
                    /\ UNCHANGED <<response, raised, escaped>>
               ELSE Fail(r.exc) /\ UNCHANGED requesting_user
       IN returned(setup_requesting_user(headers, jwt))
    /\ UNCHANGED <<handler, event, jwt, logic, authorizer, self_event, input_data, response_data,
                   calls, logic_input, form_vars, invocation_vars>>

\* LambdaHandler.process_method: the raw input mapping
Decode ==
    /\ pc = "decoding"
    /\ trace' = Append(trace, "decode")
    /\ LET returned(r) ==
               IF r.ok
               THEN /\ input_data' = r.val /\ pc' = after_decoding(handler)
                    /\ UNCHANGED <<response, raised, escaped>>
               ELSE Fail(r.exc) /\ UNCHANGED input_data
       IN returned(decode_input(handler.method, event))
    /\ UNCHANGED <<handler, event, jwt, logic, authorizer, self_event, requesting_user, response_data,
                   calls, logic_input, form_vars, invocation_vars>>

\* self.input_data = self.input_form.process(self.input_data)
ValidateInput ==
    /\ pc = "validating-input"
    /\ trace' = Append(trace, "validate-input")
    /\ LET returned(r) ==
               IF r.ok
               THEN /\ input_data' = r.val /\ pc' = "executing"
                    /\ UNCHANGED <<response, raised, escaped>>
               ELSE Fail(r.exc) /\ UNCHANGED input_data
       IN returned(InputForm_process(handler.input_form, input_data))
    /\ UNCHANGED <<handler, event, jwt, logic, authorizer, self_event, requesting_user, response_data,
                   calls, logic_input, form_vars, invocation_vars>>

\* response_data = self.handler()
Execute ==
    /\ pc = "executing"
    /\ trace' = Append(trace, "execute")
    /\ calls' = calls + 1
    /\ logic_input' = input_data
    /\ LET returned(r) ==
               IF r.ok
               THEN /\ response_data' = r.val /\ pc' = after_executing(handler)
                    /\ UNCHANGED <<response, raised, escaped>>
               ELSE Fail(r.exc) /\ UNCHANGED response_data
       IN returned(run_handler(authorizer, logic, requesting_user))
    /\ UNCHANGED <<handler, event, jwt, logic, authorizer, self_event, input_data, requesting_user, form_vars, invocation_vars>>

\* response_data = self.output_form.process(response_data)
ValidateOutput ==
    /\ pc = "validating-output"
    /\ trace' = Append(trace, "validate-output")
    /\ LET returned(r) ==
               IF r.ok
               THEN /\ response_data' = r.val /\ pc' = "responding"
                    /\ UNCHANGED <<response, raised, escaped>>
               ELSE Fail(r.exc) /\ UNCHANGED response_data
       IN returned(OutputForm_process(handler.output_form, response_data))
    /\ UNCHANGED <<handler, event, jwt, logic, authorizer, self_event, input_data, requesting_user,
                   calls, logic_input, form_vars, invocation_vars>>

\* return success_response(response_data)
Respond ==
    /\ pc = "responding"
    /\ trace' = Append(trace, "respond")
    /\ response' = success_response(response_data)
    /\ pc' = "done"
    /\ UNCHANGED <<handler, event, jwt, logic, authorizer, self_event, input_data, requesting_user,
                   response_data, raised, escaped, calls, logic_input, form_vars, invocation_vars>>

Next == Receive \/ Authenticate \/ Decode \/ ValidateInput \/ Execute \/ ValidateOutput \/ Respond

Spec == Init /\ [][Next]_vars

\* ------------------------------------------------------------------------
\* The request pipeline of an AuthHandler whose business logic calls
\* self.authorize
\* ------------------------------------------------------------------------
Chars_FAIL == <<"F", "A", "I", "L">>
Chars_OK == <<"O", "K">>

\* the text the authorizer function returns around its response
Reply(text) ==
    PyStr(<<Punct("{"), Key("statusCode"), Punct(":"), Lit(PyInt(200)), Punct(","),
            Key("body"), Punct(":"), Lit(PyStr(text)), Punct("}")>>)

\* the response of the authorizer function: an error response, or a success
\* response whose body says whether the access is allowed
Reply_fail ==
    Reply(<<Punct("{"), Key("status"), Punct(":"), Lit(PyStr(Chars_FAIL)), Punct(","),
            Key("status_code"), Punct(":"), Lit(PyInt(401)), Punct(","),
            Key("reason"), Punct(":"), Lit(PyStr(<<"authentication error">>)), Punct("}")>>)
Reply_access(allowed) ==
    Reply(<<Punct("{"), Key("status"), Punct(":"), Lit(PyStr(Chars_OK)), Punct(","),
            Key("body"), Punct(":"), Lit(PyDict(<<Item("access_is_allowed", PyBool(allowed))>>)), Punct("}")>>)

\* the authorizer answers that the access is denied
DenyAnswers == {Ok(Reply_fail), Ok(Reply_access(FALSE))}

\* the call itself fails: the invocation raises, the reply is cut short, or
\* the reply is the platform's report of a crashed function, without a body
TransportFailures ==
    { Raise([Exc("EndpointConnectionError") EXCEPT !.reason = <<"Could not connect to the endpoint URL">>]),
      Ok(PyStr(<<Punct("{"), Key("statusCode"), Punct(":")>>)),
      Ok(PyStr(<<Punct("{"), Key("errorMessage"), Punct(":"), Lit(PyStr(<<"Task timed out">>)), Punct("}")>>)) }

Authorizers ==
    {[called |-> TRUE, invoke |-> i] : i \in DenyAnswers \cup TransportFailures \cup {Ok(Reply_access(TRUE))}}

InitAuthorize ==
    /\ pc = "received"
    /\ handler \in {h \in Handlers : h.authentication}
    /\ event \in {ev \in Events :
                    /\ ev.headers \in {EmptyDict, PyDict(<<Item("Authorization", Token)>>)}
                    /\ \/ ev.queryStringParameters = PyDict(<<Item("email", PyStr(Chars_ab))>>)
                       \/ ev.body = Body_object2}
    /\ jwt \in (IF HasToken(event) THEN {GoodVerifier, [cert |-> Ok(None), decode |-> Raise(Exc("PyJWTError"))]}
                ELSE {GoodVerifier})
    /\ logic \in {Ok(Age(PyInt(2))), Ok(Age(PyInt(1))), Raise(ServerError(<<"db password rejected">>))}
    /\ authorizer \in Authorizers \cup {NoAuthorizer}
    /\ self_event = NoEvent /\ input_data = None /\ requesting_user = None
    /\ response_data = None /\ response = NoResponse /\ raised = NoExc /\ escaped = NoExc
    /\ trace = <<>> /\ calls = 0 /\ logic_input = None
    /\ FormsIdle
    /\ InvocationsIdle

SpecAuthorize == InitAuthorize /\ [][Next]_vars

\* ------------------------------------------------------------------------
\* Concurrent invocations of one handler class: _handler runs
\* cls().handle_request(event) for every event, each on an object of its own;
\* the invocations take their steps in any order. The request of the first
\* invocation is also processed alone, before the invocations start, by the
\* actions of the request pipeline above.
\* ------------------------------------------------------------------------
Terminal == {"done", "failed", "escaped"}

\* getattr: the attributes an object o of a class with the attributes k
\* shows, its own first and the class's otherwise
attrs(o, k) == [name \in DOMAIN k |-> IF name \in o.has THEN o[name] ELSE k[name]]

setattr_on_class(o, k, name, value) == [obj |-> o, klass |-> [k EXCEPT ![name] = value]]

\* self.<name> = value: the attribute is set on the object, the class keeps
\* its own
setattr(o, k, name, value) == [obj |-> [o EXCEPT !.has = @ \cup {name}, ![name] = value], klass |-> k]

\* self, as invocation i sees it
self(i) == attrs(obj[i], klass)

\* a step that sets no attribute
Untouched(i) == [obj |-> obj[i], klass |-> klass]

\* invocation j is between its first and its last step
InFlight(j) == inv[j].pc \notin ({"idle", "received"} \cup Terminal)

\* the except clauses of handle_request on the exception e of invocation
\* locals v
InvFail(v, e) ==
    LET handled(h) ==
            [v EXCEPT !.raised = e,
                      !.response = IF h.caught THEN h.response ELSE @,
                      !.pc = IF h.caught THEN "failed" ELSE "escaped"]
    IN handled(handle_exception(e))

\* invocation i takes a step: v are its locals after the step, w its object
\* and the class after it; overlapped records that another invocation was
\* in flight
Moved(i, v, w) ==
    /\ inv' = [inv EXCEPT ![i] = [v EXCEPT !.overlapped = @ \/ \E j \in Invocations \ {i} : InFlight(j)]]
    /\ obj' = [obj EXCEPT ![i] = w.obj]
    /\ klass' = w.klass
    /\ UNCHANGED <<pipeline_vars, form_vars>>

\* handle_request: self.event = event, then process_method
InvReceive(i) ==
    /\ pc \in Terminal
    /\ inv[i].pc = "received"
    /\ LET stored(w) == Moved(i, [inv[i] EXCEPT !.pc = first_stage(attrs(w.obj, w.klass))], w)
       IN stored(setattr(obj[i], klass, "event", inv[i].event))

\* Auth0Authenticator.process_method: setup_requesting_user(headers or {})
InvAuthenticate(i) ==
    /\ inv[i].pc = "authenticating"
    /\ LET headers == IF Truthy(inv[i].event.headers) THEN inv[i].event.headers ELSE EmptyDict
           returned(r) ==
               IF r.ok
               THEN Moved(i, [inv[i] EXCEPT !.pc = "decoding"],
                          setattr(obj[i], klass, "requesting_user", r.val))
               ELSE Moved(i, InvFail(inv[i], r.exc), Untouched(i))
       IN returned(setup_requesting_user(headers, inv[i].jwt))

\* LambdaHandler.process_method: the raw input mapping
InvDecode(i) ==
    /\ inv[i].pc = "decoding"
    /\ LET returned(r) ==
               IF r.ok
               THEN Moved(i, [inv[i] EXCEPT !.pc = after_decoding(self(i))],
                          setattr(obj[i], klass, "input_data", r.val))
               ELSE Moved(i, InvFail(inv[i], r.exc), Untouched(i))
       IN returned(decode_input(self(i).method, inv[i].event))

\* self.input_data = self.input_form.process(self.input_data)
InvValidateInput(i) ==
    /\ inv[i].pc = "validating-input"
    /\ LET returned(r) ==
               IF r.ok
               THEN Moved(i, [inv[i] EXCEPT !.pc = "executing"],
                          setattr(obj[i], klass, "input_data", r.val))
               ELSE Moved(i, InvFail(inv[i], r.exc), Untouched(i))
       IN returned(InputForm_process(self(i).input_form, self(i).input_data))

\* response_data = self.handler(); logic_input and logic_user are
\* self.input_data and self.requesting_user as the business logic finds them
InvExecute(i) ==
    /\ inv[i].pc = "executing"
    /\ LET returned(v, r) ==
               IF r.ok
               THEN Moved(i, [v EXCEPT !.response_data = r.val, !.pc = after_executing(self(i))],
                          Untouched(i))
               ELSE Moved(i, InvFail(v, r.exc), Untouched(i))
       IN returned([inv[i] EXCEPT !.logic_input = self(i).input_data,
                                  !.logic_user = self(i).requesting_user],
                   run_handler(NoAuthorizer, inv[i].logic, self(i).requesting_user))

\* response_data = self.output_form.process(response_data)
InvValidateOutput(i) ==
    /\ inv[i].pc = "validating-output"
    /\ LET returned(r) ==
               IF r.ok
               THEN Moved(i, [inv[i] EXCEPT !.response_data = r.val, !.pc = "responding"], Untouched(i))
               ELSE Moved(i, InvFail(inv[i], r.exc), Untouched(i))
       IN returned(OutputForm_process(self(i).output_form, inv[i].response_data))

\* return success_response(response_data)
InvRespond(i) ==
    /\ inv[i].pc = "responding"
    /\ Moved(i, [inv[i] EXCEPT !.response = success_response(inv[i].response_data), !.pc = "done"],
             Untouched(i))

\* the handler classes of the concurrent invocations: with and without
\* authentication, with both forms and with none
ConcurrentHandlers ==
    {h \in Handlers : h.method = "GET" /\ (h.input_form = None) = (h.output_form = None)}

\* the requests of the concurrent invocations: a query that passes the
\* input form and one that fails it, each from either of two users, with a
\* result that passes the output form; and a request whose result fails it
OtherUser == [cert |-> Ok(None), decode |-> Ok(Claims(PyStr(Chars_qw), PyBool(TRUE)))]

ConcurrentEvents ==
    { [headers |-> PyDict(<<Item("Authorization", Token)>>),
       queryStringParameters |-> PyDict(<<Item("email", PyStr(Chars_ab))>>), body |-> None],
      [headers |-> PyDict(<<Item("Authorization", Token)>>),
       queryStringParameters |-> PyDict(<<Item("email", PyStr(Chars_ab)), Item("age", PyStr(Chars_qw))>>),
       body |-> None] }

Requests ==
    { Invocation(ev, v, Ok(Age(PyInt(2)))) : ev \in ConcurrentEvents, v \in {GoodVerifier, OtherUser} }
    \cup { Invocation(ev, GoodVerifier, Ok(Age(PyInt(1)))) :
             ev \in {e \in ConcurrentEvents : DictGet(e.queryStringParameters, "age") = None} }

InitConcurrent ==
    /\ pc = "received"
    /\ handler \in ConcurrentHandlers
    /\ \E q \in Requests : event = q.event /\ jwt = q.jwt /\ logic = q.logic
    /\ authorizer = NoAuthorizer
    /\ self_event = NoEvent /\ input_data = None /\ requesting_user = None
    /\ response_data = None /\ response = NoResponse /\ raised = NoExc /\ escaped = NoExc
    /\ trace = <<>> /\ calls = 0 /\ logic_input = None
    /\ FormsIdle
    /\ klass = ClassOf(handler)
    /\ obj = [i \in Invocations |-> NewObject]
    /\ inv \in {f \in [Invocations -> Requests] : f[1] = Invocation(event, jwt, logic)}

NextConcurrent ==
    \/ Next
    \/ \E i \in Invocations :
          \/ InvReceive(i) \/ InvAuthenticate(i) \/ InvDecode(i) \/ InvValidateInput(i)
          \/ InvExecute(i) \/ InvValidateOutput(i) \/ InvRespond(i)

SpecConcurrent == InitConcurrent /\ [][NextConcurrent]_vars

\* ------------------------------------------------------------------------
\* Form runs: InputForm.process(data)
\* ------------------------------------------------------------------------
Chars_a == <<"a">>

\* declarations of an email field: StringField(required, min_length, default)
EmailFields ==
    { [StringField EXCEPT !.required = r, !.min_length = m, !.default = d] :
        r \in BOOLEAN, m \in {None, PyInt(2)}, d \in {None, PyStr(Chars_a), PyStr(Chars_ab)} }

\* declarations of an age field: IntegerField(required, min_value, default)
AgeFields ==
    { [IntegerField EXCEPT !.required = r, !.min_value = m, !.default = d] :
        r \in BOOLEAN, m \in {None, PyInt(1)}, d \in {None, PyInt(1)} }

TagsFields ==
    { [ListField("StringField") EXCEPT !.required = r, !.blank = b] : r \in BOOLEAN, b \in BOOLEAN }
    \cup { [ListField("IntegerField") EXCEPT !.valid_values = PySet({PyInt(1)})] }

InputForms ==
    { Form(<<FormField("email", e)>>) : e \in EmailFields }
    \cup { Form(<<FormField("email", e), FormField("age", a)>>) : e \in EmailFields, a \in AgeFields }
    \cup { Form(<<FormField("age", a), FormField("email", e)>>) : e \in EmailFields, a \in AgeFields }

TagsForms ==
    { Form(<<FormField("tags", t), FormField("flag", BooleanField)>>) : t \in TagsFields }

\* an optional item of a dict literal
Opt(k, present, v) == IF present THEN <<Item(k, v)>> ELSE <<>>

EmailValues == {None, PyStr(<<>>), PyStr(Chars_a), PyStr(Chars_ab)}

AgeValues ==
    {None, PyStr(<<>>), PyStr(Chars_qw), PyStr(<<"1">>), PyList(<<>>), PyList(<<PyInt(1)>>), PyBool(FALSE)}
    \cup {PyInt(n) : n \in 0..MaxInt}

TagsValues ==
    {None, PyList(<<>>), PyList(<<PyStr(Chars_a)>>), PyList(<<PyStr(Chars_a), PyInt(1)>>),
     PyList(<<PyInt(1), PyStr(Chars_qw)>>), PyInt(1), PyStr(Chars_ab)}

\* raw mappings: each declared key present or missing, and an undeclared key
InputDatas ==
    { PyDict(Opt("extra", x, PyInt(1)) \o Opt("email", pe, e) \o Opt("age", pa, a)) :
        x \in BOOLEAN, pe \in BOOLEAN, e \in EmailValues, pa \in BOOLEAN, a \in AgeValues }

TagsDatas ==
    { PyDict(Opt("tags", pt, t) \o Opt("flag", pf, f)) :
        pt \in BOOLEAN, t \in TagsValues, pf \in BOOLEAN, f \in {PyInt(0), PyStr(Chars_qw)} }

InitInput ==
    /\ \/ form \in InputForms /\ data \in InputDatas
       \/ form \in TagsForms /\ data \in TagsDatas
    /\ field = NoField
    /\ result = Ok(None)
    /\ again = Ok(None)
    /\ fpc = "ready"
    /\ PipelineIdle
    /\ InvocationsIdle

\* result = form.process(data)
InputProcess ==
    /\ fpc = "ready"
    /\ result' = InputForm_process(form, data)
    /\ fpc' = "done"
    /\ UNCHANGED <<form, field, data, again, pipeline_vars, invocation_vars>>

NextInput == InputProcess

SpecInput == InitInput /\ [][NextInput]_vars

\* ------------------------------------------------------------------------
\* Form runs: OutputForm.process(data)
\* ------------------------------------------------------------------------
MinAge == [IntegerField EXCEPT !.min_value = PyInt(2)]

\* forms of plain fields only (tests/test_forms.py: test_output_errors,
\* test_key_map), one of them with a declared default
LeafForms ==
    { Form(<<FormField("age", MinAge)>>),
      Form(<<FormField("email", [StringField EXCEPT !.key_map = "user_email"]), FormField("age", MinAge)>>),
      Form(<<FormField("email", [StringField EXCEPT !.default = PyStr(Chars_qw)]), FormField("age", MinAge)>>) }

SubformKey(kind) ==
    CASE kind = "SubformField" -> "user"
      [] kind = "ListSubformField" -> "users"
      [] kind = "DictSubformField" -> "members"

RECURSIVE OutputFormsAt(_)
\* the forms whose plain fields lie d subform fields deep
OutputFormsAt(d) ==
    IF d = 0 THEN LeafForms
    ELSE { Form(<<FormField(SubformKey(kind), [Field(kind) EXCEPT !.subform = f])>>) :
             kind \in {"SubformField", "ListSubformField", "DictSubformField"}, f \in OutputFormsAt(d - 1) }

OutputForms == UNION { OutputFormsAt(d) : d \in 0..MaxDepth }

IsLeafForm(f) == \A i \in 1..Len(f[2]) : ~IsSubformKind(f[2][i].field.kind)

OutputAgeValues == {PyStr(Chars_qw), PyStr(<<"2">>), PyList(<<PyInt(1)>>)} \cup {PyInt(n) : n \in 1..(MaxInt + 1)}

\* source records of a form of plain fields: each key the form reads
\* present or missing
LeafDatas(f) ==
    IF Len(f[2]) = 1
    THEN { PyDict(Opt("age", pa, a)) : pa \in BOOLEAN, a \in OutputAgeValues }
    ELSE { PyDict(Opt("email", pm, m) \o Opt("user_email", pe, PyStr(Chars_ab)) \o Opt("age", pa, a)) :
            pm \in BOOLEAN, m \in {PyStr(Chars_a), PyInt(1)}, pe \in BOOLEAN,
            pa \in BOOLEAN, a \in {PyInt(1), PyInt(2), PyStr(<<"2">>)} }

RECURSIVE GoodData(_), OutputDatas(_)
\* a source record the form accepts
GoodData(f) ==
    IF IsLeafForm(f) THEN PyDict(<<Item("age", PyInt(2))>>)
    ELSE LET k == f[2][1].key
             kind == f[2][1].field.kind
             g == GoodData(f[2][1].field.subform)
         IN PyDict(<<Item(k, CASE kind = "SubformField" -> g
                               [] kind = "ListSubformField" -> PyList(<<g>>)
                               [] kind = "DictSubformField" -> PyDict(<<Item("k1", g)>>))>>)

\* source records of a form: the subform value missing, None, empty, and
\* holding each source record of the nested form, alone, after a good one,
\* or between a good one and an empty one
OutputDatas(f) ==
    IF IsLeafForm(f) THEN LeafDatas(f)
    ELSE LET k == f[2][1].key
             kind == f[2][1].field.kind
             sub == f[2][1].field.subform
             D == OutputDatas(sub)
             g == GoodData(sub)
             V == CASE kind = "SubformField" -> {None} \cup D
                    [] kind = "ListSubformField" ->
                         {None, PyList(<<>>)} \cup {PyList(<<x>>) : x \in D} \cup {PyList(<<g, x>>) : x \in D}
                         \cup {PyList(<<g, x, EmptyDict>>) : x \in D}
                    [] kind = "DictSubformField" ->
                         {None, EmptyDict} \cup {PyDict(<<Item("k1", x)>>) : x \in D}
                         \cup {PyDict(<<Item("k1", g), Item("k2", x)>>) : x \in D}
         IN {EmptyDict} \cup {PyDict(<<Item(k, v)>>) : v \in V}

\* values that are neither a mapping nor a list or tuple
OtherShapes == {None, PyStr(Chars_ab), PyInt(1)}

InitOutput ==
    /\ form \in OutputForms
    /\ data \in OutputDatas(form)
                \cup {PyList(<<GoodData(form), x>>) : x \in OutputDatas(form)}
                \cup {PyTuple(<<x, GoodData(form)>>) : x \in OutputDatas(form)}
                \cup {PyList(<<>>)}
                \cup OtherShapes
    /\ field = NoField
    /\ result = Ok(None)
    /\ again = Ok(None)
    /\ fpc = "ready"
    /\ PipelineIdle
    /\ InvocationsIdle

\* result = form.process(data)
OutputProcess ==
    /\ fpc = "ready"
    /\ result' = OutputForm_process(form, data)
    /\ fpc' = "done"
    /\ UNCHANGED <<form, field, data, again, pipeline_vars, invocation_vars>>

\* again = form.process(result), once the first run has returned
OutputReprocess ==
    /\ fpc = "done"
    /\ result.ok
    /\ again' = OutputForm_process(form, result.val)
    /\ fpc' = "redone"
    /\ UNCHANGED <<form, field, data, result, pipeline_vars, invocation_vars>>

NextOutput == OutputProcess \/ OutputReprocess

SpecOutput == InitOutput /\ [][NextOutput]_vars

\* ------------------------------------------------------------------------
\* Field runs: field.validate(data)
\* ------------------------------------------------------------------------
Chars_1 == <<"1">>
Chars_nan == <<"n", "a", "n">>

\* an optional bound
Bound(values) == {None} \cup {PyInt(n) : n \in values}

\* StringField(required, default, min_length, max_length); the defaults are
\* a string within every bound, a string too short for min_length = 2, and
\* a number
StringFields ==
    { [StringField EXCEPT !.required = r, !.default = d, !.min_length = lo, !.max_length = hi] :
        r \in BOOLEAN, d \in {None, PyStr(Chars_qw), PyStr(Chars_a), PyInt(1)},
        lo \in Bound({1, 2}), hi \in Bound({2}) }

\* IntegerField / FloatField(required, default, min_value, max_value); the
\* defaults are a whole number, a decimal, a numeral and a text that is no
\* number
NumericFields ==
    { [Field(kind) EXCEPT !.required = r, !.default = d, !.min_value = lo, !.max_value = hi] :
        kind \in {"IntegerField", "FloatField"}, r \in BOOLEAN,
        d \in {None, PyInt(1), PyFloat(15), PyStr(Chars_1), PyStr(Chars_qw)},
        lo \in Bound({1, 2}), hi \in Bound({2}) }

BooleanFields ==
    { [BooleanField EXCEPT !.required = r, !.default = d] :
        r \in BOOLEAN, d \in {None, PyBool(TRUE), PyInt(0)} }

\* ListField(field_type, blank, valid_values, required, default)
ListFields ==
    { [ListField(t) EXCEPT !.blank = b, !.valid_values = vv, !.required = r, !.default = d] :
        t \in {"StringField", "IntegerField"}, b \in BOOLEAN,
        vv \in {None, PySet({PyStr(Chars_a), PyStr(Chars_1), PyInt(1)})},
        r \in BOOLEAN, d \in {None, PyList(<<PyStr(Chars_1)>>), PyList(<<PyInt(1)>>)} }

FieldDecls == StringFields \cup NumericFields \cup BooleanFields \cup ListFields

\* raw elements of a list value
RawElements == {None, PyStr(Chars_a), PyStr(Chars_qw), PyStr(Chars_1), PyInt(1), PyInt(MaxInt), PyList(<<PyInt(1)>>)}

RawLists ==
    {PyList(<<>>)} \cup {PyList(<<x>>) : x \in RawElements}
    \cup {PyList(<<x, y>>) : x \in RawElements, y \in RawElements}

\* raw values of every shape
RawValues ==
    {None, PyBool(TRUE), PyBool(FALSE), EmptyDict, PyDict(<<Item("a", PyInt(1))>>), NaN, PyFloat(15), PyFloat(20)}
    \cup {PyInt(n) : n \in 0..(MaxInt + 1)}
    \cup {PyStr(c) : c \in {<<>>, Chars_a, Chars_ab, Chars_qw \o Chars_a, Chars_1, <<"3">>, <<"1", ".", "5">>,
                             <<"1", "q">>, Chars_nan}}

InitField ==
    /\ field \in FieldDecls
    /\ data \in RawValues \cup (IF field.kind = "ListField" THEN RawLists ELSE {PyList(<<>>), PyList(<<PyInt(1)>>)})
    /\ form = None
    /\ result = Ok(None)
    /\ again = Ok(None)
    /\ fpc = "ready"
    /\ PipelineIdle
    /\ InvocationsIdle

\* result = field.validate(data)
FieldValidate ==
    /\ fpc = "ready"
    /\ result' = validate(field, data)
    /\ fpc' = "done"
    /\ UNCHANGED <<form, field, data, again, pipeline_vars, invocation_vars>>

NextField == FieldValidate

SpecField == InitField /\ [][NextField]_vars

\* ------------------------------------------------------------------------
\* Properties of the request pipeline (checked under Spec)
\* ------------------------------------------------------------------------
Last(q) == q[Len(q)]
Range(q) == {q[i] : i \in 1..Len(q)}
IsPrefix(p, q) == Len(p) <= Len(q) /\ SubSeq(q, 1, Len(p)) = p
Contains(q, sub) == \E k \in 0..(Len(q) - Len(sub)) : SubSeq(q, k + 1, k + Len(sub)) = sub

FailedIn(stage) == pc = "failed" /\ Len(trace) > 0 /\ Last(trace) = stage

ClientClasses ==
    {"PermissionsError", "AuthenticationError", "RequiredFieldError", "InvalidValueError", "ClientError"}

\* the status of the failure table
StatusOf(cls) ==
    CASE cls = "PermissionsError" -> 403
      [] cls = "AuthenticationError" -> 401
      [] cls \in {"RequiredFieldError", "InvalidValueError", "ClientError"} -> 400
      [] OTHER -> 500

C2_GenericServerError ==
    (pc = "failed" /\ raised.cls \notin ClientClasses) =>
        response = [status |-> "FAIL", status_code |-> 500, reason |-> <<"server error">>]

C2_Witness ==
    /\ FailedIn("validate-output")
    /\ raised.cls = "ServerError"
    /\ Contains(raised.reason, <<"age", "=", "1">>)
    /\ response.reason = <<"server error">>

\* C3: when the handler requires authentication, every failure of the
\* authenticating stage is answered with
\* {status: FAIL, status_code: 401, reason: authentication error}.
C3_AuthFailureIs401 ==
    (pc \in {"failed", "escaped"} /\ Len(trace) > 0 /\ Last(trace) = "authenticate") =>
        response = [status |-> "FAIL", status_code |-> 401, reason |-> <<"authentication error">>]

\* the stages of a request of handler class h, in their order
StagesOf(h) ==
    (IF h.authentication THEN <<"authenticate">> ELSE <<>>)
    \o <<"decode">>
    \o (IF h.input_form # None THEN <<"validate-input">> ELSE <<>>)
    \o <<"execute">>
    \o (IF h.output_form # None THEN <<"validate-output">> ELSE <<>>)
    \o <<"respond">>

C4_Order ==
    /\ IsPrefix(trace, StagesOf(handler))
    /\ calls = Cardinality({i \in 1..Len(trace) : trace[i] = "execute"})
    /\ calls <= 1
    /\ (pc = "failed" /\ Last(trace) \in {"authenticate", "decode", "validate-input"}) => calls = 0
    /\ pc = "done" => trace = StagesOf(handler)

\* C4: the stages of a request run in the order authenticate (when required),
\* decode, validate input (when an input form is declared), business logic,
\* validate output (when an output form is declared), respond; the business
\* logic runs at most once and never after an authentication, decoding or
\* input-validation failure; no stage runs after a stage that failed.
C4_StageOrder == [](C4_Order) /\ [][raised # NoExc => (trace' = trace /\ calls' = calls)]_vars

C4_Witness ==
    /\ pc = "done"
    /\ trace = <<"authenticate", "decode", "validate-input", "execute", "validate-output", "respond">>

\* the raw decoded mapping of the event
RawInput ==
    IF handler.method = "GET"
    THEN IF event.queryStringParameters \in {None, EmptyDict} THEN EmptyDict ELSE event.queryStringParameters
    ELSE IF event.body \in {None, Body_empty} THEN EmptyDict ELSE json_loads(event.body).val

C6_MalformedBodyIs400 ==
    (handler.method # "GET" /\ event.body \in MalformedBodies /\ "decode" \in Range(trace)) =>
        /\ FailedIn("decode")
        /\ response.status = "FAIL"
        /\ response.status_code = 400
        /\ calls = 0

\* ------------------------------------------------------------------------
\* Properties of InputForm.process (checked under SpecInput)
\* ------------------------------------------------------------------------
FieldAt(i) == form[2][i].field
KeyAt(i) == form[2][i].key
RawAt(i) == DictGet(data, KeyAt(i))
Falsy(x) == x \in {None, PyStr(<<>>), PyInt(0), PyBool(FALSE), PyList(<<>>), EmptyDict}

\* field i is required and its raw value is absent or falsy
RequiredMiss(i) == FieldAt(i).required /\ Falsy(RawAt(i))

\* field i neither misses nor fails its validation
Passes(i) == ~RequiredMiss(i) /\ validate(FieldAt(i), RawAt(i)).ok

\* C7, as claimed: process raises RequiredFieldError naming F whenever F is
\* required and its raw value is absent or falsy.
C7_RequiredAlwaysNamed ==
    fpc = "done" =>
        \A i \in 1..Len(form[2]) : RequiredMiss(i) => result = Raise(RequiredFieldError(KeyAt(i)))

\* C7, amended: whenever a required field F is absent or falsy no canonical
\* mapping is returned, and when every field declared before F passes the
\* failure is RequiredFieldError naming F, also when the value of F would
\* fail coercion or a constraint.
C7_FirstRequiredMiss ==
    fpc = "done" =>
        \A i \in 1..Len(form[2]) :
            RequiredMiss(i) =>
                /\ ~result.ok
                /\ (\A j \in 1..(i - 1) : Passes(j)) => result = Raise(RequiredFieldError(KeyAt(i)))

C7_Witness ==
    /\ fpc = "done"
    /\ \E i \in 1..Len(form[2]) :
        /\ i > 1
        /\ RequiredMiss(i)
        /\ RawAt(i) # None
        /\ ~validate(FieldAt(i), RawAt(i)).ok
        /\ result = Raise(RequiredFieldError(KeyAt(i)))

\* field i is the first field that does not pass, and it fails in validate
\* with a FieldValidationError
FirstFailsValidation(i) ==
    /\ \A j \in 1..(i - 1) : Passes(j)
    /\ ~RequiredMiss(i)
    /\ validate(FieldAt(i), RawAt(i)).exc.cls = "FieldValidationError"

RECURSIVE PlainFieldFails(_, _)
\* some plain field of the form, at any depth, rejects its value in record d
PlainFieldFails(f, d) ==
    \E i \in 1..Len(f[2]) :
        LET fd == f[2][i].field
            value == DictGet(d, IF fd.key_map # "" THEN fd.key_map ELSE f[2][i].key)
        IN CASE fd.kind = "SubformField" -> value # None /\ PlainFieldFails(fd.subform, value)
             [] fd.kind = "ListSubformField" ->
                    value # None /\ \E j \in 1..Len(value[2]) : PlainFieldFails(fd.subform, value[2][j])
             [] fd.kind = "DictSubformField" ->
                    value # None /\ \E j \in 1..Len(value[2]) : PlainFieldFails(fd.subform, value[2][j].v)
             [] OTHER -> ~validate(fd, value).ok

SourceFails ==
    IF data[1] \in {"list", "tuple"} THEN \E j \in 1..Len(data[2]) : PlainFieldFails(form, data[2][j])
    ELSE data[1] = "dict" /\ PlainFieldFails(form, data)

\* C10: at every nesting depth, a plain field whose value fails coercion or
\* a constraint makes OutputForm.process raise ServerError.
C10_PlainFailureIsServerError ==
    (fpc = "done" /\ SourceFails) => (~result.ok /\ result.exc.cls = "ServerError")

\* the source records of the run, one for a mapping, one per entry for a
\* list or tuple, and the records of the result at the same places
SourceRecords == IF data[1] = "dict" THEN <<data>> ELSE data[2]
ResultRecords == IF data[1] = "dict" THEN <<result.val>> ELSE result.val[2]

RECURSIVE Shaped(_, _, _)
\* r is the record of form f for the source record d: one entry per declared
\* field, in declaration order; a subform field holds None (an empty list for
\* a ListSubformField) when its source value is absent, and otherwise the
\* record of the nested form, one per list entry in order, one per key; a
\* plain field holds its validated value
Shaped(f, d, r) ==
    /\ r[1] = "dict"
    /\ Len(r[2]) = Len(f[2])
    /\ \A i \in 1..Len(f[2]) :
        LET fd == f[2][i].field
            value == DictGet(d, IF fd.key_map # "" THEN fd.key_map ELSE f[2][i].key)
            out == r[2][i].v
        IN /\ r[2][i].k = f[2][i].key
           /\ CASE fd.kind = "SubformField" ->
                    IF value = None THEN out = None ELSE Shaped(fd.subform, value, out)
                [] fd.kind = "ListSubformField" ->
                    IF value = None THEN out = PyList(<<>>)
                    ELSE /\ out[1] = "list"
                         /\ Len(out[2]) = Len(value[2])
                         /\ \A j \in 1..Len(value[2]) : Shaped(fd.subform, value[2][j], out[2][j])
                [] fd.kind = "DictSubformField" ->
                    IF value = None THEN out = None
                    ELSE /\ out[1] = "dict"
                         /\ Len(out[2]) = Len(value[2])
                         /\ \A j \in 1..Len(value[2]) :
                                /\ out[2][j].k = value[2][j].k
                                /\ Shaped(fd.subform, value[2][j].v, out[2][j].v)
                [] OTHER -> out = validate(fd, value).val

\* the form has one field, a subform field, and the source record does not
\* hold a value for it
SubformAbsent ==
    /\ data[1] = "dict"
    /\ Len(form[2]) = 1
    /\ IsSubformKind(form[2][1].field.kind)
    /\ DictGet(data, form[2][1].key) = None

C12_OnlyMappingsAndSequences ==
    fpc = "done" =>
        /\ (data[1] = "dict" /\ result.ok) => Shaped(form, data, result.val)
        /\ (data[1] \in {"list", "tuple"} /\ result.ok) =>
              /\ result.val[1] = "list"
              /\ Len(result.val[2]) = Len(data[2])
              /\ \A j \in 1..Len(data[2]) : result.val[2][j] = process_form(form, data[2][j]).val
        /\ data[1] \notin {"dict", "list", "tuple"} => ~result.ok

\* C13: every field's value is read from the source record under the
\* field's key_map when it is set and under the field's own name otherwise,
\* and written to the result under the field's own name; the keys of the
\* result are exactly the declared names.
C13_KeyMap ==
    (fpc = "done" /\ data[1] = "dict" /\ result.ok) =>
        /\ DictKeys(result.val) = FormKeys(form)
        /\ Len(result.val[2]) = Len(form[2])
        /\ \A i \in 1..Len(form[2]) :
            LET fd == form[2][i].field
                src == IF fd.key_map # "" THEN fd.key_map ELSE form[2][i].key
            IN ~IsSubformKind(fd.kind) =>
                  DictGet(result.val, form[2][i].key) = validate(fd, DictGet(data, src)).val

C13_Witness ==
    /\ fpc = "done"
    /\ data = PyDict(<<Item("email", PyStr(Chars_a)), Item("user_email", PyStr(Chars_ab)),
                       Item("age", PyInt(2))>>)
    /\ form[2][1].field.key_map = "user_email"
    /\ result = Ok(PyDict(<<Item("email", PyStr(Chars_ab)), Item("age", PyInt(2))>>))

RECURSIVE HasKeyMap(_)
\* some field of the form, at any depth, declares a key_map
HasKeyMap(f) ==
    \E i \in 1..Len(f[2]) :
        \/ f[2][i].field.key_map # ""
        \/ IsSubformKind(f[2][i].field.kind) /\ HasKeyMap(f[2][i].field.subform)

\* C14, as claimed: for every output form, forms with key_map fields
\* included, processing the result of a successful run once more succeeds
\* and yields the same result.
C14_Idempotent == fpc = "redone" => again = result

\* C14, amended: for every output form none of whose fields, at any depth,
\* declares a key_map, processing the result of a successful run once more
\* succeeds and yields the same result.
C14_IdempotentWithoutKeyMap == (fpc = "redone" /\ ~HasKeyMap(form)) => again = result

C14_Witness ==
    /\ fpc = "redone"
    /\ ~HasKeyMap(form)
    /\ form[2][1].field.kind = "ListSubformField"
    /\ data = PyDict(<<Item("users", PyList(<<Age(PyInt(2)),
                                              PyDict(<<Item("email", PyInt(1)), Item("age", PyStr(<<"2">>))>>),
                                              EmptyDict>>))>>)
    /\ result.val = PyDict(<<Item("users", PyList(<<
                        PyDict(<<Item("email", PyStr(Chars_qw)), Item("age", PyInt(2))>>),
                        PyDict(<<Item("email", PyStr(<<"1">>)), Item("age", PyInt(2))>>),
                        PyDict(<<Item("email", PyStr(Chars_qw)), Item("age", None)>>)>>))>>)
    /\ again = result

\* ------------------------------------------------------------------------
\* Properties of field.validate (checked under SpecField)
\* ------------------------------------------------------------------------
IsNumeric(f) == f.kind \in {"IntegerField", "FloatField"}

TooShort == <<"the value is shorter than min allowed length [">> \o StrOf(field.min_length) \o <<"]">>
TooLong == <<"the value is larger than max allowed length [">> \o StrOf(field.max_length) \o <<"]">>
TooLow == <<"the value is lower than min allowed value [">> \o StrOf(field.min_value) \o <<"]">>
TooHigh == <<"the value is bigger than max allowed value [">> \o StrOf(field.max_value) \o <<"]">>

\* n lies in [lo, hi], a bound that is None being no bound; the float that
\* is not a number lies in no interval that has a bound
InBounds(lo, n, hi) ==
    /\ lo # None => (n[1] # "nan" /\ Tenths(lo) <= Tenths(n))
    /\ hi # None => (n[1] # "nan" /\ Tenths(n) <= Tenths(hi))

RECURSIVE Canonical(_, _)
\* d is a canonical value of field f: of the field's type and within its
\* constraints
Canonical(f, d) ==
    CASE f.kind = "StringField" -> d[1] = "str" /\ InBounds(f.min_length, PyInt(Len(d[2])), f.max_length)
      [] f.kind = "BooleanField" -> d[1] = "bool"
      [] f.kind = "IntegerField" -> d[1] = "int" /\ InBounds(f.min_value, d, f.max_value)
      [] f.kind = "FloatField" -> d[1] = "float" /\ InBounds(f.min_value, d, f.max_value)
      [] f.kind = "ListField" ->
            /\ d[1] = "list"
            /\ \A i \in 1..Len(d[2]) : d[2][i] = None \/ Canonical(Field(f.field_type), d[2][i])
            /\ Len(d[2]) > 0 \/ f.blank
            /\ f.valid_values # None => \A i \in 1..Len(d[2]) : d[2][i] \in f.valid_values[2]

C16_InclusiveBounds ==
    (fpc = "done" /\ data # None) =>
        /\ field.kind = "StringField" =>
              LET n == PyInt(Len(StrOf(data))) IN
              IF InBounds(field.min_length, n, field.max_length)
              THEN result = Ok(PyStr(StrOf(data)))
              ELSE /\ ~result.ok
                   /\ result.exc.cls = "FieldValidationError"
                   /\ \/ result.exc.reason = TooShort /\ ~InBounds(field.min_length, n, None)
                      \/ result.exc.reason = TooLong /\ ~InBounds(None, n, field.max_length)
        /\ (IsNumeric(field) /\ dtype(field, data).ok) =>
              LET n == dtype(field, data).val IN
              IF InBounds(field.min_value, n, field.max_value)
              THEN result = Ok(n)
              ELSE /\ ~result.ok
                   /\ result.exc.cls = "FieldValidationError"
                   /\ \/ result.exc.reason = TooLow /\ ~InBounds(field.min_value, n, None)
                      \/ result.exc.reason = TooHigh /\ ~InBounds(None, n, field.max_value)

\* a raw value that is a number or the text of one, as the field's kind
\* reads it: whole numbers for an IntegerField, decimals and nan as well for
\* a FloatField
Coercible(f, x) ==
    \/ x[1] \in {"int", "bool", "float"}
    \/ x[1] = "nan" /\ f.kind = "FloatField"
    \/ /\ x[1] = "str"
       /\ LET body == IF Len(x[2]) > 1 /\ x[2][1] \in {"-", "+"} THEN Tail(x[2]) ELSE x[2] IN
          \/ AllDigits(body)
          \/ f.kind = "FloatField" /\ (body = Chars_nan \/ DecimalTenths(body) >= 0)

\* C17: on an Integer or Float field every raw value other than None that
\* cannot be coerced to the field's numeric kind (text that is no number, a
\* list, a mapping) makes validate raise FieldValidationError with the
\* reason wrong data type, which no out-of-range failure carries, and no
\* other kind of exception leaves validate.
C17_WrongDataType ==
    (fpc = "done" /\ IsNumeric(field) /\ data # None) =>
        /\ ~Coercible(field, data) => result = Raise(FieldValidationError(<<"wrong data type">>))
        /\ Coercible(field, data) => result # Raise(FieldValidationError(<<"wrong data type">>))
        /\ result.ok \/ result.exc.cls = "FieldValidationError"

\* the outcomes of the elements of a list value under a fresh element field
ElementRuns == [i \in 1..Len(data[2]) |-> validate(Field(field.field_type), data[2][i])]
BlankFailure == Raise(FieldValidationError(<<"the value is blank">>))

\* C18: a ListField accepts the empty list exactly when blank is true; a
\* list that is not empty never fails as blank, and when one of its elements
\* is invalid it fails with the failure of its first invalid element.
C18_BlankAfterElements ==
    (fpc = "done" /\ field.kind = "ListField" /\ data[1] = "list") =>
        /\ data = PyList(<<>>) => result = (IF field.blank THEN Ok(PyList(<<>>)) ELSE BlankFailure)
        /\ data # PyList(<<>>) =>
              /\ result # BlankFailure
              /\ FirstFailure(ElementRuns) # 0 =>
                    LET e == ElementRuns[FirstFailure(ElementRuns)].exc IN
                    result = Raise(FieldValidationError(
                                IF e.cls = "FieldValidationError" THEN e.reason ELSE <<"wrong data type">>))

C18_Witness ==
    /\ fpc = "done"
    /\ field.kind = "ListField" /\ field.field_type = "IntegerField" /\ ~field.blank
    /\ data = PyList(<<PyInt(1), PyStr(Chars_qw)>>)
    /\ result = Raise(FieldValidationError(<<"wrong data type">>))

\* the elements of a list value after element coercion
Coerced == {ElementRuns[i].val : i \in 1..Len(data[2])}

\* the valid_values check of a list value is reached
ReachesValidValues ==
    /\ field.kind = "ListField" /\ field.valid_values # None /\ data[1] = "list"
    /\ FirstFailure(ElementRuns) = 0
    /\ data # PyList(<<>>) \/ field.blank

\* the orders in which the elements of a set can be written
Orderings(S) == {q \in [1..Cardinality(S) -> S] : \A i, j \in 1..Cardinality(S) : q[i] = q[j] => i = j}

C20_AuthorizeFailureIs403 ==
    (/\ "execute" \in Range(trace)
     /\ authorizer.called
     /\ authorizer.invoke \in DenyAnswers \cup TransportFailures) =>
        /\ FailedIn("execute")
        /\ raised.cls = "PermissionsError"
        /\ response = [status |-> "FAIL", status_code |-> 403, reason |-> <<"permission denied">>]

\* ------------------------------------------------------------------------
\* Properties of concurrent invocations (checked under SpecConcurrent)
\* ------------------------------------------------------------------------
\* invocation i carries the request that was processed alone
SameRequest(i) == inv[i].event = event /\ inv[i].jwt = jwt /\ inv[i].logic = logic

\* C21: concurrent invocations of one handler class are independent. The
\* class attributes, with the forms and the fields they declare, stay as
\* constructed; every invocation that has started shows its own event as
\* self.event; and under every interleaving an invocation that has ended
\* has the response, the exception, self.event, self.input_data and
\* self.requesting_user, and its business logic found the input and the
\* user, of the same request processed alone.
C21_Independent ==
    /\ klass = ClassOf(handler)
    /\ \A i \in Invocations :
          /\ inv[i].pc # "received" => self(i).event = inv[i].event
          /\ (inv[i].pc \in Terminal /\ SameRequest(i)) =>
                /\ inv[i].pc = pc
                /\ inv[i].response = response
                /\ inv[i].raised = raised
                /\ inv[i].logic_input = logic_input
                /\ inv[i].logic_user = (IF "execute" \in Range(trace) THEN requesting_user ELSE None)
                /\ self(i).event = self_event
                /\ self(i).input_data = input_data
                /\ self(i).requesting_user = requesting_user

\* two invocations with different inputs and different users that
\* overlapped have both answered
C21_Witness ==
    /\ inv[1].pc = "done" /\ inv[2].pc = "done"
    /\ inv[1].overlapped /\ inv[2].overlapped
    /\ SameRequest(1)
    /\ inv[1].logic_input # inv[2].logic_input
    /\ inv[1].logic_user # None /\ inv[2].logic_user # None
    /\ inv[1].logic_user # inv[2].logic_user
====
